---- MODULE Spec2Model ----
(***************************************************************************)
(* V4L2 raw video demux (modules/access/v4l2/demux.c): session setup       *)
(* (DemuxOpen / InitVideo), the capture cycle (Demux) and teardown         *)
(* (DemuxClose), as a state machine over the session aggregate, the        *)
(* kernel device and the downstream es_out.                                *)
(***************************************************************************)
EXTENDS Integers, Sequences, FiniteSets, TLC

(* ------------------------------------------------------------------ *)
(* Bounds of the model                                                 *)
(* ------------------------------------------------------------------ *)
\* longest VIDIOC_ENUM_FMT enumeration a device reports
MaxEnum == 3
\* largest buffer count the driver grants to VIDIOC_REQBUFS
MaxBuffers == 2
\* capture cycles driven by the owner before teardown
MaxCycles == 2
\* consecutive EINTR results of poll() inside one cycle
MaxEintr == 1
\* DemuxClose calls issued by a misbehaving owner
MaxCloseCalls == 2

(* ------------------------------------------------------------------ *)
(* Program constants                                                   *)
(* ------------------------------------------------------------------ *)
NULL == 0
\* rank of the null descriptor; the largest integer TLC represents stands
\* for SIZE_MAX (only its order against table positions is used)
SIZE_MAX == 2147483647

VLC_SUCCESS == "VLC_SUCCESS"
VLC_EGENERIC == "VLC_EGENERIC"
VLC_ENOMEM == "VLC_ENOMEM"
\* results of Demux: 1 to be called again, -1 to end the input
DEMUX_CONTINUE == "1"
DEMUX_FATAL == "-1"

IO_UNSET == "IO_UNSET"
IO_METHOD_READ == "IO_METHOD_READ"
IO_METHOD_MMAP == "IO_METHOD_MMAP"

V4L2_CAP_VIDEO_CAPTURE == "V4L2_CAP_VIDEO_CAPTURE"
V4L2_CAP_STREAMING == "V4L2_CAP_STREAMING"
V4L2_CAP_READWRITE == "V4L2_CAP_READWRITE"
V4L2_FMT_FLAG_EMULATED == "V4L2_FMT_FLAG_EMULATED"

BLOCK_FLAG_TOP_FIELD_FIRST == "BLOCK_FLAG_TOP_FIELD_FIRST"
BLOCK_FLAG_BOTTOM_FIELD_FIRST == "BLOCK_FLAG_BOTTOM_FIELD_FIRST"

(* ------------------------------------------------------------------ *)
(* Format catalog (little-endian build, V4L2_PIX_FMT_H264 defined)     *)
(* ------------------------------------------------------------------ *)
Fmt(v, c, r, g, b) == [v4l2 |-> v, vlc |-> c, red |-> r, green |-> g, blue |-> b]

v4l2_fmts ==
    << Fmt("V4L2_PIX_FMT_YUV420",  "VLC_CODEC_I420", 0, 0, 0),
       Fmt("V4L2_PIX_FMT_YVU420",  "VLC_CODEC_YV12", 0, 0, 0),
       Fmt("V4L2_PIX_FMT_YUV422P", "VLC_CODEC_I422", 0, 0, 0),
       Fmt("V4L2_PIX_FMT_YUYV",    "VLC_CODEC_YUYV", 0, 0, 0),
       Fmt("V4L2_PIX_FMT_UYVY",    "VLC_CODEC_UYVY", 0, 0, 0),
       Fmt("V4L2_PIX_FMT_YVYU",    "VLC_CODEC_YVYU", 0, 0, 0),
       Fmt("V4L2_PIX_FMT_VYUY",    "VLC_CODEC_VYUY", 0, 0, 0),
       Fmt("V4L2_PIX_FMT_YUV411P", "VLC_CODEC_I411", 0, 0, 0),
       Fmt("V4L2_PIX_FMT_YUV410",  "VLC_CODEC_I410", 0, 0, 0),
       Fmt("V4L2_PIX_FMT_NV12",    "VLC_CODEC_NV12", 0, 0, 0),
       Fmt("V4L2_PIX_FMT_NV21",    "VLC_CODEC_NV21", 0, 0, 0),
       Fmt("V4L2_PIX_FMT_RGB32",   "VLC_CODEC_RGB32", 255, 65280, 16711680),
       Fmt("V4L2_PIX_FMT_BGR32",   "VLC_CODEC_RGB32", 16711680, 65280, 255),
       Fmt("V4L2_PIX_FMT_RGB24",   "VLC_CODEC_RGB24", 255, 65280, 16711680),
       Fmt("V4L2_PIX_FMT_BGR24",   "VLC_CODEC_RGB24", 16711680, 65280, 255),
       Fmt("V4L2_PIX_FMT_RGB565",  "VLC_CODEC_RGB16", 31, 2016, 63488),
       Fmt("V4L2_PIX_FMT_RGB555",  "VLC_CODEC_RGB15", 31, 992, 31744),
       Fmt("V4L2_PIX_FMT_JPEG",    "VLC_CODEC_MJPG", 0, 0, 0),
       Fmt("V4L2_PIX_FMT_H264",    "VLC_CODEC_H264", 0, 0, 0),
       Fmt("V4L2_PIX_FMT_MPEG4",   "VLC_CODEC_MP4V", 0, 0, 0),
       Fmt("V4L2_PIX_FMT_XVID",    "VLC_CODEC_MP4V", 0, 0, 0),
       Fmt("V4L2_PIX_FMT_H263",    "VLC_CODEC_H263", 0, 0, 0),
       Fmt("V4L2_PIX_FMT_MPEG2",   "VLC_CODEC_MPGV", 0, 0, 0),
       Fmt("V4L2_PIX_FMT_MPEG1",   "VLC_CODEC_MPGV", 0, 0, 0),
       Fmt("V4L2_PIX_FMT_VC1_ANNEX_G", "VLC_CODEC_VC1", 0, 0, 0),
       Fmt("V4L2_PIX_FMT_VC1_ANNEX_L", "VLC_CODEC_VC1", 0, 0, 0),
       Fmt("V4L2_PIX_FMT_MJPEG",   "VLC_CODEC_MJPG", 0, 0, 0),
       Fmt("V4L2_PIX_FMT_GREY",    "VLC_CODEC_GREY", 0, 0, 0) >>

\* A descriptor pointer is the 1-based position of the entry in v4l2_fmts,
\* NULL when it points nowhere.
DscPtr == 0..Len(v4l2_fmts)

vlc_from_v4l2_fourcc(fourcc) ==
    IF \E k \in 1..Len(v4l2_fmts) : v4l2_fmts[k].v4l2 = fourcc
    THEN CHOOSE k \in 1..Len(v4l2_fmts) :
            /\ v4l2_fmts[k].v4l2 = fourcc
            /\ \A j \in 1..(k - 1) : v4l2_fmts[j].v4l2 # fourcc
    ELSE NULL

vlc_v4l2_fmt_rank(fmt) == IF fmt = NULL THEN SIZE_MAX ELSE fmt - 1

(* ------------------------------------------------------------------ *)
(* Inputs of the model: what the device and the configuration supply   *)
(* ------------------------------------------------------------------ *)
\* pixel formats the modelled devices enumerate: three catalog entries of
\* ranks 0, 11 and 12 (the last two share one output codec) and one format
\* the catalog does not list
DevPixelFormats ==
    { "V4L2_PIX_FMT_YUV420", "V4L2_PIX_FMT_RGB32", "V4L2_PIX_FMT_BGR32",
      "V4L2_PIX_FMT_Y41P" }

FmtDescs == [pixelformat : DevPixelFormats, flags : {{}, {V4L2_FMT_FLAG_EMULATED}}]

RECURSIVE SeqsUpTo(_, _)
SeqsUpTo(S, n) ==
    IF n = 0 THEN { << >> }
    ELSE LET shorter == SeqsUpTo(S, n - 1)
         IN shorter \cup { Append(s, x) : s \in { t \in shorter : Len(t) = n - 1 }, x \in S }

\* values of the "chroma" option after var_InheritFourCC: 0 when the option
\* is absent or names no codec
ReqFourCCs == { "0", "VLC_CODEC_I420", "VLC_CODEC_RGB32", "VLC_CODEC_GREY" }

CapSets == SUBSET { V4L2_CAP_VIDEO_CAPTURE, V4L2_CAP_STREAMING, V4L2_CAP_READWRITE }


\* geometry and frame size the device returns to the format request
Widths == { 720 }
Heights == { 480 }
SizeImages == { 4096, 8192 }

\* the frame sizes SetupFormat asks the device for
ReqSizes == { [ width |-> 640, height |-> 576 ], [ width |-> 720, height |-> 480 ] }

\* the frame interval the device reports
TimePerFrames == { [ numerator |-> 1001, denominator |-> 30000 ] }

\* a char pointer: no element when it is NULL, else the characters it points to
NullStr == << >>
StrOf(chars) == << chars >>

\* the aspect-ratio setting: unset, "16:9", "16:7", and "169" without ':'
AspectStrings ==
    { NullStr,
      StrOf(<< "1", "6", ":", "9" >>),
      StrOf(<< "1", "6", ":", "7" >>),
      StrOf(<< "1", "6", "9" >>) }

V4L2_FIELD_ANY == "V4L2_FIELD_ANY"
V4L2_FIELD_NONE == "V4L2_FIELD_NONE"
V4L2_FIELD_TOP == "V4L2_FIELD_TOP"
V4L2_FIELD_BOTTOM == "V4L2_FIELD_BOTTOM"
V4L2_FIELD_INTERLACED == "V4L2_FIELD_INTERLACED"
V4L2_FIELD_SEQ_TB == "V4L2_FIELD_SEQ_TB"
V4L2_FIELD_SEQ_BT == "V4L2_FIELD_SEQ_BT"
V4L2_FIELD_ALTERNATE == "V4L2_FIELD_ALTERNATE"
V4L2_FIELD_INTERLACED_TB == "V4L2_FIELD_INTERLACED_TB"
V4L2_FIELD_INTERLACED_BT == "V4L2_FIELD_INTERLACED_BT"

\* V4L2_FIELD_ANY is not a case of the switch: it stands for every value the
\* switch does not name
Fields ==
    { V4L2_FIELD_ANY, V4L2_FIELD_NONE, V4L2_FIELD_TOP, V4L2_FIELD_BOTTOM,
      V4L2_FIELD_INTERLACED, V4L2_FIELD_SEQ_TB, V4L2_FIELD_SEQ_BT,
      V4L2_FIELD_ALTERNATE, V4L2_FIELD_INTERLACED_TB, V4L2_FIELD_INTERLACED_BT }

(* ------------------------------------------------------------------ *)
(* State                                                               *)
(* ------------------------------------------------------------------ *)
VARIABLES
    pc,          \* position of the thread of control
    ret,         \* value returned by the last entry point that returned
    errmsg,      \* last msg_Err diagnostic
    p_sys,       \* demux->p_sys: "unset", "valid" or "dangling"
    sys,         \* demux_sys_t
    fd,          \* device handle: "unopened", "open" or "closed"
    caps,        \* InitVideo: capability flags in use
    reqfourcc,   \* InitVideo: requested output codec
    fmtdesc,     \* device: the VIDIOC_ENUM_FMT enumeration being walked
    codec_index, \* InitVideo: codec.index, -1 outside the negotiation
    selected,    \* InitVideo: selected descriptor
    native,      \* InitVideo: a native format was enumerated
    es_out,      \* downstream: the streams added with es_out_Add
    mapped,      \* process: buffer indexes whose mapping exists
    queued,      \* device: buffer indexes queued with the driver
    streaming,   \* device: streaming enabled
    i,           \* loop counter of the entry point in progress
    trace,       \* device and downstream requests of the entry point in progress
    rel,         \* how often each release request was issued so far
    uaf,         \* the session was read after free (sys)
    cycles,      \* Demux calls made so far
    eintr,       \* Demux: interrupted polls of the cycle in progress
    closeCalls,  \* DemuxClose calls made so far
    fmt,         \* InitVideo: the format the device returned (struct v4l2_format)
    parm,        \* InitVideo: the streaming parameters the device returned
    str,         \* InitVideo: the aspect-ratio setting as read
    sizes,       \* SetupFormat: the frame size asked for and the one returned
    revents,     \* Demux: ufd.revents after poll
    block,       \* Demux: the block of the cycle in progress
    outcome,     \* what the environment did last in the cycle in progress
    ctl          \* DemuxControl: the last query and its answer

vars ==
    << pc, ret, errmsg, p_sys, sys, fd, caps, reqfourcc, fmtdesc, codec_index,
       selected, native, es_out, mapped, queued, streaming, i, trace, rel, uaf,
       cycles, eintr, closeCalls, fmt, parm, str, sizes, revents, block, outcome, ctl >>

negVars == << reqfourcc, fmtdesc, codec_index, selected, native >>
devVars == << mapped, queued, streaming >>
ghostVars == << rel, uaf, cycles, eintr, closeCalls >>
setupVars == << fmt, parm, str, sizes >>
cycleVars == << revents, block, outcome, ctl >>

Op(name, arg) == << name, arg >>
Issue(name, arg) == trace' = Append(trace, Op(name, arg))
Issued(name) == \E k \in 1..Len(trace) : trace[k][1] = name

ReleaseOps ==
    { Op("v4l2_close", 0), Op("free_sys", 0), Op("free_p_buffers", 0),
      Op("ControlsDeinit", 0), Op("VIDIOC_STREAMOFF", 0) }
    \cup { Op("v4l2_munmap", k) : k \in 0..(MaxBuffers - 1) }

Released(ops) == [o \in ReleaseOps |-> IF o \in ops THEN rel[o] + 1 ELSE rel[o]]

\* the locals of InitVideo and of Demux before they are written, and
\* DemuxControl before its first call
NoFmt == [ field |-> "none", width |-> 0, height |-> 0, sizeimage |-> 0 ]
NoParm == [ numerator |-> 0, denominator |-> 0 ]
NoSizes == [ req_width |-> 0, req_height |-> 0, width |-> 0, height |-> 0 ]
NoBlock == [ i_pts |-> 0, i_dts |-> 0, i_flags |-> {}, i_buffer |-> 0 ]
NoCtl == [ query |-> "none", in |-> 0, written |-> FALSE, out |-> 0, ret |-> "none" ]

\* calloc (1, sizeof (demux_sys_t))
ZeroSys ==
    [ io |-> IO_UNSET, i_fd |-> 0, p_buffers |-> FALSE, i_nbuffers |-> 0,
      blocksize |-> 0, i_block_flags |-> {}, p_es |-> NULL, controls |-> FALSE ]

Init ==
    /\ pc = "DemuxOpen"
    /\ ret = "none"
    /\ errmsg = "none"
    /\ p_sys = "unset"
    /\ sys = ZeroSys
    /\ fd = "unopened"
    /\ caps = {}
    /\ reqfourcc = "0"
    /\ fmtdesc = << >>
    /\ codec_index = -1
    /\ selected = NULL
    /\ native = FALSE
    /\ es_out = << >>
    /\ mapped = {}
    /\ queued = {}
    /\ streaming = FALSE
    /\ i = 0
    /\ trace = << >>
    /\ rel = [o \in ReleaseOps |-> 0]
    /\ uaf = FALSE
    /\ cycles = 0
    /\ eintr = 0
    /\ closeCalls = 0
    /\ fmt = NoFmt
    /\ parm = NoParm
    /\ str = NullStr
    /\ sizes = NoSizes
    /\ revents = {}
    /\ block = NoBlock
    /\ outcome = "none"
    /\ ctl = NoCtl

(* ------------------------------------------------------------------ *)
(* DemuxOpen                                                           *)
(* ------------------------------------------------------------------ *)
\* calloc of the session; VLC_ENOMEM when it fails
DemuxOpen_Alloc ==
    /\ pc = "DemuxOpen"
    /\ \/ /\ pc' = "open_failed"
          /\ ret' = VLC_ENOMEM
          /\ UNCHANGED << p_sys, sys >>
       \/ /\ pc' = "open_device"
          /\ p_sys' = "valid"
          /\ sys' = ZeroSys
          /\ UNCHANGED ret
    /\ UNCHANGED << errmsg, fd, caps, negVars, es_out, devVars, i, trace, ghostVars,
                    setupVars, cycleVars >>

\* the device path is read and the device opened; both can fail
DemuxOpen_OpenDevice ==
    /\ pc = "open_device"
    /\ \/ /\ pc' = "error"
          /\ UNCHANGED << errmsg, fd >>
       \/ /\ pc' = "error"
          /\ errmsg' = "cannot open device"
          /\ UNCHANGED fd
       \/ /\ pc' = "InitVideo"
          /\ fd' = "open"
          /\ UNCHANGED errmsg
    /\ UNCHANGED << ret, p_sys, sys, caps, negVars, es_out, devVars, i, trace, ghostVars,
                    setupVars, cycleVars >>

\* InitVideo failed and the handle is left open
DemuxOpen_InitFailed_NoClose ==
    /\ pc = "InitVideo_failed"
    /\ pc' = "error"
    /\ fmt' = NoFmt
    /\ parm' = NoParm
    /\ str' = NullStr
    /\ sizes' = NoSizes
    /\ UNCHANGED << ret, errmsg, p_sys, sys, fd, caps, negVars, es_out, devVars, i,
                    trace, ghostVars, cycleVars >>

\* InitVideo failed: the handle is closed, which makes the driver stop
\* streaming and drop its buffer queue
DemuxOpen_InitFailed ==
    /\ pc = "InitVideo_failed"
    /\ pc' = "error"
    /\ fd' = "closed"
    /\ Issue("v4l2_close", 0)
    /\ rel' = Released({ Op("v4l2_close", 0) })
    /\ queued' = {}
    /\ streaming' = FALSE
    /\ fmt' = NoFmt
    /\ parm' = NoParm
    /\ str' = NullStr
    /\ sizes' = NoSizes
    /\ UNCHANGED << ret, errmsg, p_sys, sys, caps, negVars, es_out, mapped, i, uaf,
                    cycles, eintr, closeCalls, cycleVars >>

\* error: free (sys); return VLC_EGENERIC; demux->p_sys keeps the address
DemuxOpen_Error ==
    /\ pc = "error"
    /\ pc' = "open_failed"
    /\ ret' = VLC_EGENERIC
    /\ p_sys' = "dangling"
    /\ Issue("free_sys", 0)
    /\ rel' = Released({ Op("free_sys", 0) })
    /\ UNCHANGED << errmsg, sys, fd, caps, negVars, es_out, devVars, i, uaf, cycles,
                    eintr, closeCalls,
                    setupVars, cycleVars >>

\* InitVideo succeeded: the handle and the controls are recorded
DemuxOpen_Finish ==
    /\ pc = "InitVideo_ok"
    /\ pc' = "opened"
    /\ ret' = VLC_SUCCESS
    /\ sys' = [sys EXCEPT !.i_fd = 1, !.controls = TRUE]
    /\ Issue("ControlsInit", 0)
    /\ fmt' = NoFmt
    /\ parm' = NoParm
    /\ str' = NullStr
    /\ sizes' = NoSizes
    /\ UNCHANGED << errmsg, p_sys, fd, caps, negVars, es_out, devVars, i, ghostVars,
                    cycleVars >>

(* ------------------------------------------------------------------ *)
(* InitVideo                                                           *)
(* ------------------------------------------------------------------ *)
Fail(msg) ==
    /\ pc' = "InitVideo_failed"
    /\ errmsg' = msg

\* READ chosen although the device can stream
io_method_PreferRead(c) ==
    IF V4L2_CAP_READWRITE \in c THEN IO_METHOD_READ
    ELSE IF V4L2_CAP_STREAMING \in c THEN IO_METHOD_MMAP
    ELSE IO_UNSET

\* the I/O method chosen from the capability flags, IO_UNSET when none fits
io_method(c) ==
    IF V4L2_CAP_STREAMING \in c THEN IO_METHOD_MMAP
    ELSE IF V4L2_CAP_READWRITE \in c THEN IO_METHOD_READ
    ELSE IO_UNSET

\* VIDIOC_QUERYCAP, the capture check and the choice of the I/O method
InitVideo_QueryCap ==
    /\ pc = "InitVideo"
    /\ Issue("VIDIOC_QUERYCAP", 0)
    /\ \/ /\ Fail("cannot get device capabilities")
          /\ UNCHANGED << caps, sys >>
       \/ \E c \in CapSets :
            /\ caps' = c
            /\ IF V4L2_CAP_VIDEO_CAPTURE \notin c
               THEN Fail("not a video capture device") /\ UNCHANGED sys
               ELSE IF io_method(c) = IO_UNSET
               THEN Fail("no supported I/O method") /\ UNCHANGED sys
               ELSE /\ sys' = [sys EXCEPT !.io = io_method(c)]
                    /\ pc' = "SetupInput"
                    /\ UNCHANGED errmsg
    /\ UNCHANGED << ret, p_sys, fd, negVars, es_out, devVars, i, ghostVars,
                    setupVars, cycleVars >>

\* SetupInput: input and tuner selection, known here by its result only
InitVideo_SetupInput ==
    /\ pc = "SetupInput"
    /\ Issue("SetupInput", 0)
    /\ \/ pc' = "InitVideo_failed"
       \/ pc' = "negotiate"
    /\ UNCHANGED << ret, errmsg, p_sys, sys, fd, caps, negVars, es_out, devVars, i,
                    ghostVars,
                    setupVars, cycleVars >>

\* the locals of the negotiation are initialised; the device fixes what it
\* will enumerate
InitVideo_BeginNegotiation ==
    /\ pc = "negotiate"
    /\ pc' = "enum_fmt"
    /\ selected' = NULL
    /\ native' = FALSE
    /\ codec_index' = 0
    /\ reqfourcc' \in ReqFourCCs
    /\ fmtdesc' \in SeqsUpTo(FmtDescs, MaxEnum)
    /\ UNCHANGED << ret, errmsg, p_sys, sys, fd, caps, es_out, devVars, i, trace,
                    ghostVars,
                    setupVars, cycleVars >>

Neg(sel, nat, brk) == [selected |-> sel, native |-> nat, brk |-> brk]

\* the emulated entries are skipped only once a native entry was selected
EnumBody_NativeWhenSelected(sel, nat, codec, req) ==
    LET dsc == vlc_from_v4l2_fourcc(codec.pixelformat)
        emulated == V4L2_FMT_FLAG_EMULATED \in codec.flags
        better == ~(vlc_v4l2_fmt_rank(dsc) > vlc_v4l2_fmt_rank(sel))
    IN IF dsc = NULL THEN Neg(sel, nat, FALSE)
       ELSE IF v4l2_fmts[dsc].vlc = req THEN Neg(dsc, nat, TRUE)
       ELSE IF emulated /\ nat THEN Neg(sel, nat, FALSE)
       ELSE IF ~better THEN Neg(sel, nat, FALSE)
       ELSE Neg(dsc, nat \/ ~emulated, FALSE)

\* the requested format is selected but the enumeration goes on
EnumBody_NoBreak(sel, nat, codec, req) ==
    LET dsc == vlc_from_v4l2_fourcc(codec.pixelformat)
        emulated == V4L2_FMT_FLAG_EMULATED \in codec.flags
        nat2 == nat \/ ~emulated
    IN IF dsc = NULL THEN Neg(sel, nat, FALSE)
       ELSE IF v4l2_fmts[dsc].vlc = req THEN Neg(dsc, nat, FALSE)
       ELSE IF emulated /\ nat THEN Neg(sel, nat, FALSE)
       ELSE IF vlc_v4l2_fmt_rank(dsc) > vlc_v4l2_fmt_rank(sel)
            THEN Neg(sel, nat2, FALSE)
       ELSE Neg(dsc, nat2, FALSE)

\* the rank test is left out: the last acceptable entry is selected
EnumBody_NoRankTest(sel, nat, codec, req) ==
    LET dsc == vlc_from_v4l2_fourcc(codec.pixelformat)
        emulated == V4L2_FMT_FLAG_EMULATED \in codec.flags
        nat2 == nat \/ ~emulated
    IN IF dsc = NULL THEN Neg(sel, nat, FALSE)
       ELSE IF v4l2_fmts[dsc].vlc = req THEN Neg(dsc, nat, TRUE)
       ELSE IF emulated /\ nat THEN Neg(sel, nat, FALSE)
       ELSE Neg(dsc, nat2, FALSE)

\* one pass of the body of the enumeration loop over the entry codec:
\* the selected descriptor, the native flag and whether the loop is left
EnumBody(sel, nat, codec, req) ==
    LET dsc == vlc_from_v4l2_fourcc(codec.pixelformat)
        emulated == V4L2_FMT_FLAG_EMULATED \in codec.flags
        nat2 == nat \/ ~emulated
    IN IF dsc = NULL THEN Neg(sel, nat, FALSE)
       ELSE IF v4l2_fmts[dsc].vlc = req THEN Neg(dsc, nat, TRUE)
       ELSE IF emulated /\ nat THEN Neg(sel, nat, FALSE)
       ELSE IF vlc_v4l2_fmt_rank(dsc) > vlc_v4l2_fmt_rank(sel)
            THEN Neg(sel, nat2, FALSE)
       ELSE Neg(dsc, nat2, FALSE)

\* VIDIOC_ENUM_FMT for codec.index and, when it succeeds, the loop body
InitVideo_EnumFmt ==
    /\ pc = "enum_fmt"
    /\ Issue("VIDIOC_ENUM_FMT", codec_index)
    /\ IF codec_index >= Len(fmtdesc)
       THEN /\ pc' = "check_selected"
            /\ UNCHANGED << selected, native, codec_index >>
       ELSE LET r == EnumBody(selected, native, fmtdesc[codec_index + 1], reqfourcc)
            IN /\ selected' = r.selected
               /\ native' = r.native
               /\ IF r.brk
                  THEN pc' = "check_selected" /\ UNCHANGED codec_index
                  ELSE pc' = "enum_fmt" /\ codec_index' = codec_index + 1
    /\ UNCHANGED << ret, errmsg, p_sys, sys, fd, caps, reqfourcc, fmtdesc, es_out,
                    devVars, i, ghostVars,
                    setupVars, cycleVars >>

\* a missing selection goes on to the format request
InitVideo_CheckSelected_NoCheck ==
    /\ pc = "check_selected"
    /\ pc' = "SetupFormat"
    /\ UNCHANGED << ret, errmsg, p_sys, sys, fd, caps, negVars, es_out, devVars, i,
                    trace, ghostVars,
                    setupVars, cycleVars >>

\* if (selected == NULL) return -1; past this check the locals of the
\* enumeration are not read any more
InitVideo_CheckSelected ==
    /\ pc = "check_selected"
    /\ IF selected = NULL
       THEN Fail("cannot negotiate supported video format") /\ UNCHANGED negVars
       ELSE /\ pc' = "SetupFormat"
            /\ fmtdesc' = << >>
            /\ codec_index' = -1
            /\ reqfourcc' = "0"
            /\ native' = FALSE
            /\ UNCHANGED << errmsg, selected >>
    /\ UNCHANGED << ret, p_sys, sys, fd, caps, es_out, devVars, i, trace, ghostVars,
                    setupVars, cycleVars >>

\* interleaved frames are taken as bottom field first
InterlaceFlags_BottomFirst(field, old) ==
    CASE field = V4L2_FIELD_INTERLACED -> { BLOCK_FLAG_BOTTOM_FIELD_FIRST }
      [] field = V4L2_FIELD_INTERLACED_TB -> { BLOCK_FLAG_TOP_FIELD_FIRST }
      [] field = V4L2_FIELD_INTERLACED_BT -> { BLOCK_FLAG_BOTTOM_FIELD_FIRST }
      [] OTHER -> old

\* switch (fmt.fmt.pix.field): the frame flag the session records; a field
\* order the switch does not set leaves the flag as it was
InterlaceFlags(field, old) ==
    CASE field = V4L2_FIELD_INTERLACED -> { BLOCK_FLAG_TOP_FIELD_FIRST }
      [] field = V4L2_FIELD_INTERLACED_TB -> { BLOCK_FLAG_TOP_FIELD_FIRST }
      [] field = V4L2_FIELD_INTERLACED_BT -> { BLOCK_FLAG_BOTTOM_FIELD_FIRST }
      [] OTHER -> old

\* the height is left as the device returned it
InterlaceHeight_NoDoubling(field, height) == height

\* switch (fmt.fmt.pix.field): the height after the switch
InterlaceHeight(field, height) ==
    IF field = V4L2_FIELD_ALTERNATE THEN height * 2 ELSE height

\* INT_MAX of the build: int is 32 bits wide
INT_MAX == 2147483647

\* a product of two non-negative values stays within int
FitsInt(a, b) == a = 0 \/ b <= INT_MAX \div a

\* the decimal digits atoi reads
DigitValue(c) ==
    CASE c = "0" -> 0 [] c = "1" -> 1 [] c = "2" -> 2 [] c = "3" -> 3
      [] c = "4" -> 4 [] c = "5" -> 5 [] c = "6" -> 6 [] c = "7" -> 7
      [] c = "8" -> 8 [] c = "9" -> 9

IsDigit(c) == c \in { "0", "1", "2", "3", "4", "5", "6", "7", "8", "9" }

RECURSIVE SkipSpace(_, _)
SkipSpace(s, k) ==
    IF k <= Len(s) /\ s[k] = " " THEN SkipSpace(s, k + 1) ELSE k

RECURSIVE ReadDigits(_, _, _)
ReadDigits(s, k, acc) ==
    IF k <= Len(s) /\ IsDigit(s[k])
    THEN ReadDigits(s, k + 1, acc * 10 + DigitValue(s[k]))
    ELSE acc

\* atoi: leading blanks, an optional sign, then digits up to the first
\* character that is not one; 0 when there is no digit
atoi(s) ==
    LET k == SkipSpace(s, 1)
        signed == k <= Len(s) /\ s[k] \in { "-", "+" }
        v == ReadDigits(s, IF signed THEN k + 1 ELSE k, 0)
    IN IF signed /\ s[k] = "-" THEN 0 - v ELSE v

\* strchr: the position of the first c in s, 0 when there is none
strchr(s, c) ==
    IF \E k \in 1..Len(s) : s[k] = c
    THEN CHOOSE k \in 1..Len(s) : s[k] = c /\ \A j \in 1..(k - 1) : s[j] # c
    ELSE 0

\* the unit of display aspect ratios
VOUT_ASPECT_FACTOR == 432000

\* the quotient is taken before the factor is applied
AspectRatio_DivideFirst(string) ==
    IF string = NullStr THEN (4 * VOUT_ASPECT_FACTOR) \div 3
    ELSE LET delim == strchr(string[1], ":")
         IN IF delim # 0
            THEN (atoi(string[1])
                    \div atoi(SubSeq(string[1], delim + 1, Len(string[1]))))
                 * VOUT_ASPECT_FACTOR
            ELSE (4 * VOUT_ASPECT_FACTOR) \div 3

\* ar: 4:3 unless the setting holds a ':', then its two numbers
AspectRatio(string) ==
    IF string = NullStr THEN (4 * VOUT_ASPECT_FACTOR) \div 3
    ELSE LET delim == strchr(string[1], ":")
         IN IF delim # 0
            THEN (atoi(string[1]) * VOUT_ASPECT_FACTOR)
                 \div atoi(SubSeq(string[1], delim + 1, Len(string[1])))
            ELSE (4 * VOUT_ASPECT_FACTOR) \div 3

\* es_format_Init and the assignments to es_fmt.video
EsFormat(dsc, width, height, tpf, string) ==
    [ i_codec |-> v4l2_fmts[dsc].vlc,
      i_rmask |-> v4l2_fmts[dsc].red,
      i_gmask |-> v4l2_fmts[dsc].green,
      i_bmask |-> v4l2_fmts[dsc].blue,
      i_width |-> width,
      i_height |-> height,
      i_frame_rate |-> tpf.denominator,
      i_frame_rate_base |-> tpf.numerator,
      i_sar_num |-> AspectRatio(string) * height,
      i_sar_den |-> VOUT_ASPECT_FACTOR * width ]

\* SetupFormat, the interlacing switch, the aspect ratio, es_out_Add and the
\* READ case of the I/O switch
InitVideo_SetupFormat ==
    /\ pc = "SetupFormat"
    /\ \/ /\ pc' = "InitVideo_failed"
          /\ Issue("SetupFormat", 0)
          /\ UNCHANGED << sys, es_out, setupVars >>
       \/ \E field \in Fields, width \in Widths, height \in Heights,
             sizeimage \in SizeImages, tpf \in TimePerFrames,
             string \in AspectStrings, asked \in ReqSizes :
            /\ sizes' = [ req_width |-> asked.width, req_height |-> asked.height,
                          width |-> width, height |-> height ]
            /\ fmt' = [ field |-> field, width |-> width,
                        height |-> InterlaceHeight(field, height),
                        sizeimage |-> sizeimage ]
            /\ parm' = tpf
            /\ str' = string
            /\ es_out' = Append(es_out, EsFormat(selected, fmt'.width, fmt'.height,
                                                 tpf, string))
            /\ trace' = trace \o << Op("SetupFormat", 0), Op("es_out_Add", 0) >>
            /\ IF sys.io = IO_METHOD_READ
               THEN /\ sys' = [sys EXCEPT
                                 !.i_block_flags = InterlaceFlags(field, @),
                                 !.p_es = Len(es_out) + 1,
                                 !.blocksize = sizeimage]
                    /\ pc' = "InitVideo_ok"
               ELSE /\ sys' = [sys EXCEPT
                                 !.i_block_flags = InterlaceFlags(field, @),
                                 !.p_es = Len(es_out) + 1]
                    /\ pc' = "InitMmap"
    /\ UNCHANGED << ret, errmsg, p_sys, fd, caps, negVars, devVars, i, ghostVars,
                    cycleVars >>

\* InitMmap: the buffers are requested and mapped; on failure the mappings
\* made so far are released and there is no pool; fmt, parm and str are not
\* read any more
InitVideo_InitMmap ==
    /\ pc = "InitMmap"
    /\ fmt' = NoFmt
    /\ parm' = NoParm
    /\ str' = NullStr
    /\ sizes' = NoSizes
    /\ \/ /\ pc' = "InitVideo_failed"
          /\ Issue("VIDIOC_REQBUFS", 0)
          /\ UNCHANGED << sys, mapped, i >>
       \/ \E n \in 1..MaxBuffers :
            /\ pc' = "qbuf"
            /\ trace' = trace \o << Op("VIDIOC_REQBUFS", 0) >>
                              \o [k \in 1..n |-> Op("v4l2_mmap", k - 1)]
            /\ sys' = [sys EXCEPT !.p_buffers = TRUE, !.i_nbuffers = n]
            /\ mapped' = 0..(n - 1)
            /\ i' = 0
    /\ UNCHANGED << ret, errmsg, p_sys, fd, caps, negVars, es_out, queued, streaming,
                    ghostVars,
                    cycleVars >>

\* the loop stops one buffer short
QueueLoopGoesOn_OneShort(k, n) == k < n - 1

\* for (unsigned int i = 0; i < sys->i_nbuffers; i++)
QueueLoopGoesOn(k, n) == k < n

\* a VIDIOC_QBUF that fails is passed over
InitVideo_QBuf_FailureIgnored ==
    /\ pc = "qbuf"
    /\ QueueLoopGoesOn(i, sys.i_nbuffers)
    /\ Issue("VIDIOC_QBUF", i)
    /\ \/ /\ i' = i + 1
          /\ UNCHANGED << pc, errmsg, queued >>
       \/ /\ queued' = queued \cup { i }
          /\ i' = i + 1
          /\ UNCHANGED << pc, errmsg >>
    /\ UNCHANGED << ret, p_sys, sys, fd, caps, negVars, es_out, mapped, streaming,
                    ghostVars,
                    setupVars, cycleVars >>

\* VIDIOC_QBUF of buffer i (loop of lines 444-457)
InitVideo_QBuf ==
    /\ pc = "qbuf"
    /\ QueueLoopGoesOn(i, sys.i_nbuffers)
    /\ Issue("VIDIOC_QBUF", i)
    /\ \/ /\ Fail("cannot queue buffer")
          /\ UNCHANGED << queued, i >>
       \/ /\ queued' = queued \cup { i }
          /\ i' = i + 1
          /\ UNCHANGED << pc, errmsg >>
    /\ UNCHANGED << ret, p_sys, sys, fd, caps, negVars, es_out, mapped, streaming,
                    ghostVars,
                    setupVars, cycleVars >>

\* VIDIOC_STREAMON once the loop is over
InitVideo_StreamOn ==
    /\ pc = "qbuf"
    /\ ~QueueLoopGoesOn(i, sys.i_nbuffers)
    /\ Issue("VIDIOC_STREAMON", 0)
    /\ \/ /\ Fail("cannot start streaming")
          /\ UNCHANGED streaming
       \/ /\ streaming' = TRUE
          /\ pc' = "InitVideo_ok"
          /\ UNCHANGED errmsg
    /\ UNCHANGED << ret, p_sys, sys, fd, caps, negVars, es_out, mapped, queued, i,
                    ghostVars,
                    setupVars, cycleVars >>

(* ------------------------------------------------------------------ *)
(* Demux: one capture cycle                                            *)
(* ------------------------------------------------------------------ *)
\* the owner calls Demux again unless the last call ended the input
Demux_Enter ==
    /\ pc = "opened"
    /\ ret # DEMUX_FATAL
    /\ cycles < MaxCycles
    /\ pc' = "poll"
    /\ cycles' = cycles + 1
    /\ eintr' = 0
    /\ trace' = << >>
    /\ revents' = {}
    /\ block' = NoBlock
    /\ outcome' = "none"
    /\ ctl' = NoCtl
    /\ UNCHANGED << ret, errmsg, p_sys, sys, fd, caps, negVars, es_out, devVars, i,
                    rel, uaf, closeCalls, setupVars >>

\* how poll can fail, and what it can report for the descriptor when it
\* does not fail: nothing (timeout), data, an error on the device, or a
\* descriptor that is no longer open
PollErrnos == { "EINTR", "ENOMEM" }
POLLIN == "POLLIN"
POLLERR == "POLLERR"
POLLNVAL == "POLLNVAL"
PollRevents == { {}, { POLLIN }, { POLLERR }, { POLLNVAL } }

\* every failure of poll ends the cycle
PollFailed_NoRetry(err) == "fatal"

\* while (poll (...) == -1) if (errno != EINTR) return -1
PollFailed(err) == IF err = "EINTR" THEN "retry" ELSE "fatal"

\* a poll without event goes on to the capture
AfterPoll_NoTimeoutCheck(r) == "grab"

\* if (ufd.revents == 0) return 1
AfterPoll(r) == IF r = {} THEN "return" ELSE "grab"

\* one call of poll and what Demux does with its result
Demux_Poll ==
    /\ pc = "poll"
    /\ Issue("poll", 0)
    /\ \/ \E err \in PollErrnos :
            /\ outcome' = err
            /\ IF PollFailed(err) = "retry"
               THEN /\ eintr < MaxEintr
                    /\ eintr' = eintr + 1
                    /\ UNCHANGED << pc, ret, errmsg >>
               ELSE /\ pc' = "opened"
                    /\ ret' = DEMUX_FATAL
                    /\ errmsg' = "poll error"
                    /\ UNCHANGED eintr
            /\ UNCHANGED revents
       \/ \E r \in PollRevents :
            /\ revents' = r
            /\ IF AfterPoll(r) = "return"
               THEN /\ pc' = "opened"
                    /\ ret' = DEMUX_CONTINUE
                    /\ outcome' = "timeout"
               ELSE /\ pc' = "grab"
                    /\ outcome' = "ready"
                    /\ UNCHANGED ret
            /\ UNCHANGED << errmsg, eintr >>
    /\ UNCHANGED << p_sys, sys, fd, caps, negVars, es_out, devVars, i, rel, uaf,
                    cycles, closeCalls, setupVars, block, ctl >>

\* how v4l2_read can fail
ReadErrnos == { "EAGAIN", "EIO", "EBADF" }

\* what a read that does not fail returns: end of file or the whole block
ReadVals(size) == { 0, size }

\* a frame can only come from a descriptor that poll reported readable
Readable == POLLIN \in revents

\* switch (errno) of BlockRead: EAGAIN is silent, the rest is logged
ReadFailed(err) == IF err = "EAGAIN" THEN errmsg ELSE "cannot read frame"

\* BlockRead: one read of blocksize bytes; no block when the allocation
\* fails or when the read fails
Demux_BlockRead ==
    /\ pc = "grab"
    /\ sys.io = IO_METHOD_READ
    /\ \/ /\ pc' = "opened"
          /\ ret' = DEMUX_CONTINUE
          /\ outcome' = "block_Alloc"
          /\ UNCHANGED << errmsg, trace, block >>
       \/ \E err \in ReadErrnos :
            /\ pc' = "opened"
            /\ ret' = DEMUX_CONTINUE
            /\ outcome' = err
            /\ Issue("v4l2_read", sys.blocksize)
            /\ errmsg' = ReadFailed(err)
            /\ UNCHANGED block
       \/ \E val \in ReadVals(sys.blocksize) :
            /\ Readable
            /\ pc' = "send"
            /\ outcome' = "block"
            /\ Issue("v4l2_read", sys.blocksize)
            /\ block' = [NoBlock EXCEPT !.i_buffer = val]
            /\ UNCHANGED << ret, errmsg >>
    /\ UNCHANGED << p_sys, sys, fd, caps, negVars, es_out, devVars, i, ghostVars,
                    setupVars, revents, ctl >>

\* the flags a block can carry when GrabVideo returns it
BLOCK_FLAG_DISCONTINUITY == "BLOCK_FLAG_DISCONTINUITY"
GrabFlags == { {}, { BLOCK_FLAG_DISCONTINUITY } }

\* GrabVideo: one buffer is retracted, its contents become the block, and
\* the buffer is queued again under its index; no block when the retract
\* fails
Demux_GrabVideo ==
    /\ pc = "grab"
    /\ sys.io = IO_METHOD_MMAP
    /\ \/ /\ pc' = "opened"
          /\ ret' = DEMUX_CONTINUE
          /\ outcome' = "GrabVideo"
          /\ Issue("VIDIOC_DQBUF", 0)
          /\ UNCHANGED block
       \/ \E k \in queued, flags \in GrabFlags, size \in SizeImages :
            /\ Readable
            /\ pc' = "send"
            /\ outcome' = "block"
            /\ trace' = trace \o << Op("VIDIOC_DQBUF", 0), Op("VIDIOC_QBUF", k) >>
            /\ block' = [NoBlock EXCEPT !.i_flags = flags, !.i_buffer = size]
            /\ UNCHANGED ret
    /\ UNCHANGED << errmsg, p_sys, sys, fd, caps, negVars, es_out, devVars, i,
                    ghostVars, setupVars, revents, ctl >>

\* what mdate can return
Mdate == { 1000, 2000 }

\* the decode timestamp is left as it was
Stamp_PtsOnly(b, t, flags) ==
    [b EXCEPT !.i_pts = t, !.i_flags = @ \cup flags]

\* block->i_pts = block->i_dts = mdate (); block->i_flags |= sys->i_block_flags
Stamp(b, t, flags) ==
    [b EXCEPT !.i_pts = t, !.i_dts = t, !.i_flags = @ \cup flags]

\* the block is stamped, flagged and sent: ES_OUT_SET_PCR, then es_out_Send
Demux_Send ==
    /\ pc = "send"
    /\ pc' = "opened"
    /\ ret' = DEMUX_CONTINUE
    /\ \E t \in Mdate :
         /\ block' = Stamp(block, t, sys.i_block_flags)
         /\ trace' = trace \o << Op("ES_OUT_SET_PCR", block'.i_pts),
                                 Op("es_out_Send", sys.p_es) >>
    /\ UNCHANGED << errmsg, p_sys, sys, fd, caps, negVars, es_out, devVars, i,
                    ghostVars, setupVars, revents, outcome, ctl >>

(* ------------------------------------------------------------------ *)
(* DemuxControl                                                        *)
(* ------------------------------------------------------------------ *)
DEMUX_CAN_PAUSE == "DEMUX_CAN_PAUSE"
DEMUX_CAN_SEEK == "DEMUX_CAN_SEEK"
DEMUX_CAN_CONTROL_PACE == "DEMUX_CAN_CONTROL_PACE"
DEMUX_GET_PTS_DELAY == "DEMUX_GET_PTS_DELAY"
DEMUX_GET_TIME == "DEMUX_GET_TIME"
DEMUX_GET_LENGTH == "DEMUX_GET_LENGTH"
DEMUX_SET_PAUSE_STATE == "DEMUX_SET_PAUSE_STATE"

Queries ==
    { DEMUX_CAN_PAUSE, DEMUX_CAN_SEEK, DEMUX_CAN_CONTROL_PACE, DEMUX_GET_PTS_DELAY,
      DEMUX_GET_TIME, DEMUX_GET_LENGTH, DEMUX_SET_PAUSE_STATE }

\* the "live-caching" setting, in milliseconds
LiveCaching == { 300, 5000 }

\* what the query reads from outside the session: the setting for
\* DEMUX_GET_PTS_DELAY, the clock for DEMUX_GET_TIME
ControlReads(query) ==
    CASE query = DEMUX_GET_PTS_DELAY -> LiveCaching
      [] query = DEMUX_GET_TIME -> Mdate
      [] OTHER -> { 0 }

Answer(query, in, written, out, r) ==
    [ query |-> query, in |-> in, written |-> written, out |-> out, ret |-> r ]

\* the delay is answered in milliseconds
Control_DelayInMs(query, in) ==
    CASE query \in { DEMUX_CAN_PAUSE, DEMUX_CAN_SEEK, DEMUX_CAN_CONTROL_PACE }
           -> Answer(query, in, TRUE, 0, VLC_SUCCESS)
      [] query = DEMUX_GET_PTS_DELAY -> Answer(query, in, TRUE, in, VLC_SUCCESS)
      [] query = DEMUX_GET_TIME -> Answer(query, in, TRUE, in, VLC_SUCCESS)
      [] OTHER -> Answer(query, in, FALSE, 0, VLC_EGENERIC)

\* switch (query) of DemuxControl: what is written through the argument
\* (false is 0) and what is returned
Control(query, in) ==
    CASE query \in { DEMUX_CAN_PAUSE, DEMUX_CAN_SEEK, DEMUX_CAN_CONTROL_PACE }
           -> Answer(query, in, TRUE, 0, VLC_SUCCESS)
      [] query = DEMUX_GET_PTS_DELAY -> Answer(query, in, TRUE, 1000 * in, VLC_SUCCESS)
      [] query = DEMUX_GET_TIME -> Answer(query, in, TRUE, in, VLC_SUCCESS)
      [] OTHER -> Answer(query, in, FALSE, 0, VLC_EGENERIC)

\* the owner sends a query between two calls of Demux, whose locals are
\* gone by then
DemuxControl ==
    /\ pc = "opened"
    /\ \E query \in Queries : \E in \in ControlReads(query) :
         ctl' = Control(query, in)
    /\ trace' = << >>
    /\ revents' = {}
    /\ block' = NoBlock
    /\ outcome' = "none"
    /\ UNCHANGED << pc, ret, errmsg, p_sys, sys, fd, caps, negVars, es_out, devVars,
                    i, ghostVars, setupVars >>

(* ------------------------------------------------------------------ *)
(* DemuxClose                                                          *)
(* ------------------------------------------------------------------ *)
\* the MMAP case of "Stop video capture" left out
CloseEntry_NoStop(s) == "close_free"

\* capture is stopped whatever the I/O method
CloseEntry_AlwaysStop(s) == "close_dqbuf"

\* switch (sys->io) of "Stop video capture": where control goes first
CloseEntry(s) == IF s.io = IO_METHOD_MMAP THEN "close_dqbuf" ELSE "close_free"

\* the owner tears the session down between two cycles
DemuxClose_Enter ==
    /\ pc = "opened"
    /\ pc' = CloseEntry(sys)
    /\ i' = 0
    /\ trace' = << >>
    /\ closeCalls' = closeCalls + 1
    /\ revents' = {}
    /\ block' = NoBlock
    /\ outcome' = "none"
    /\ ctl' = NoCtl
    /\ UNCHANGED << ret, errmsg, p_sys, sys, fd, caps, negVars, es_out, devVars, rel,
                    uaf, cycles, eintr, setupVars >>

\* what a read of the freed session can give back: the old contents or
\* anything else
StaleSys ==
    { [sys EXCEPT !.io = m, !.p_buffers = b, !.i_nbuffers = n] :
        m \in { IO_UNSET, IO_METHOD_READ, IO_METHOD_MMAP },
        b \in BOOLEAN, n \in 0..MaxBuffers }

\* DemuxClose as it starts when demux->p_sys points to a freed session
CloseFreed ==
    /\ p_sys = "dangling"
    /\ closeCalls < MaxCloseCalls
    /\ uaf' = TRUE
    /\ sys' \in StaleSys
    /\ pc' = CloseEntry(sys')
    /\ i' = 0
    /\ trace' = << >>
    /\ closeCalls' = closeCalls + 1
    /\ UNCHANGED << ret, errmsg, p_sys, fd, caps, negVars, es_out, devVars, rel,
                    cycles, eintr,
                    setupVars, cycleVars >>

\* the owner calls DemuxClose although DemuxOpen failed and freed the session
DemuxClose_AfterFailedOpen ==
    /\ pc = "open_failed"
    /\ CloseFreed

\* the owner calls DemuxClose on a session that DemuxClose already freed
DemuxClose_Again ==
    /\ pc = "closed"
    /\ CloseFreed

\* VIDIOC_DQBUF, once per pool buffer, result ignored: the driver hands a
\* queued buffer back or fails
DemuxClose_DQBuf ==
    /\ pc = "close_dqbuf"
    /\ i < sys.i_nbuffers
    /\ i' = i + 1
    /\ Issue("VIDIOC_DQBUF", 0)
    /\ \/ UNCHANGED queued
       \/ \E k \in queued : queued' = queued \ { k }
    /\ UNCHANGED << pc, ret, errmsg, p_sys, sys, fd, caps, negVars, es_out, mapped,
                    streaming, ghostVars,
                    setupVars, cycleVars >>

\* VIDIOC_STREAMOFF after the loop: the driver drops what is still queued
DemuxClose_StreamOff ==
    /\ pc = "close_dqbuf"
    /\ i >= sys.i_nbuffers
    /\ pc' = "close_free"
    /\ Issue("VIDIOC_STREAMOFF", 0)
    /\ rel' = Released({ Op("VIDIOC_STREAMOFF", 0) })
    /\ streaming' = FALSE
    /\ queued' = {}
    /\ UNCHANGED << ret, errmsg, p_sys, sys, fd, caps, negVars, es_out, mapped, i, uaf,
                    cycles, eintr, closeCalls,
                    setupVars, cycleVars >>

\* if (sys->p_buffers) switch (sys->io): READ frees the read buffer and the
\* array, MMAP enters the munmap loop
DemuxClose_FreeBuffers ==
    /\ pc = "close_free"
    /\ IF ~sys.p_buffers
       THEN pc' = "close_fd" /\ UNCHANGED << i, trace, rel >>
       ELSE IF sys.io = IO_METHOD_MMAP
       THEN pc' = "close_munmap" /\ i' = 0 /\ UNCHANGED << trace, rel >>
       ELSE /\ pc' = "close_fd"
            /\ trace' = trace \o (IF sys.io = IO_METHOD_READ
                                  THEN << Op("free_start", 0) >> ELSE << >>)
                              \o << Op("free_p_buffers", 0) >>
            /\ rel' = Released({ Op("free_p_buffers", 0) })
            /\ UNCHANGED i
    /\ UNCHANGED << ret, errmsg, p_sys, sys, fd, caps, negVars, es_out, devVars, uaf,
                    cycles, eintr, closeCalls,
                    setupVars, cycleVars >>

\* v4l2_munmap of buffer i
DemuxClose_Munmap ==
    /\ pc = "close_munmap"
    /\ i < sys.i_nbuffers
    /\ i' = i + 1
    /\ Issue("v4l2_munmap", i)
    /\ rel' = Released({ Op("v4l2_munmap", i) })
    /\ mapped' = mapped \ { i }
    /\ UNCHANGED << pc, ret, errmsg, p_sys, sys, fd, caps, negVars, es_out, queued,
                    streaming, uaf, cycles, eintr, closeCalls,
                    setupVars, cycleVars >>

\* free (sys->p_buffers) after the munmap loop
DemuxClose_FreePool ==
    /\ pc = "close_munmap"
    /\ i >= sys.i_nbuffers
    /\ pc' = "close_fd"
    /\ Issue("free_p_buffers", 0)
    /\ rel' = Released({ Op("free_p_buffers", 0) })
    /\ UNCHANGED << ret, errmsg, p_sys, sys, fd, caps, negVars, es_out, devVars, i,
                    uaf, cycles, eintr, closeCalls,
                    setupVars, cycleVars >>

\* ControlsDeinit, v4l2_close, free (sys)
DemuxClose_Finish ==
    /\ pc = "close_fd"
    /\ pc' = "closed"
    /\ trace' = trace \o << Op("ControlsDeinit", 0), Op("v4l2_close", 0),
                            Op("free_sys", 0) >>
    /\ rel' = Released({ Op("ControlsDeinit", 0), Op("v4l2_close", 0),
                         Op("free_sys", 0) })
    /\ fd' = IF fd = "open" THEN "closed" ELSE fd
    /\ queued' = {}
    /\ streaming' = FALSE
    /\ p_sys' = "dangling"
    /\ UNCHANGED << ret, errmsg, sys, caps, negVars, es_out, mapped, i, uaf, cycles,
                    eintr, closeCalls,
                    setupVars, cycleVars >>

(* ------------------------------------------------------------------ *)
(* Specifications                                                      *)
(* ------------------------------------------------------------------ *)
Next ==
    \/ DemuxOpen_Alloc
    \/ DemuxOpen_OpenDevice
    \/ DemuxOpen_InitFailed
    \/ DemuxOpen_Error
    \/ DemuxOpen_Finish
    \/ InitVideo_QueryCap
    \/ InitVideo_SetupInput
    \/ InitVideo_BeginNegotiation
    \/ InitVideo_EnumFmt
    \/ InitVideo_CheckSelected
    \/ InitVideo_SetupFormat
    \/ InitVideo_InitMmap
    \/ InitVideo_QBuf
    \/ InitVideo_StreamOn
    \/ Demux_Enter
    \/ Demux_Poll
    \/ Demux_BlockRead
    \/ Demux_GrabVideo
    \/ Demux_Send
    \/ DemuxControl
    \/ DemuxClose_Enter
    \/ DemuxClose_DQBuf
    \/ DemuxClose_StreamOff
    \/ DemuxClose_FreeBuffers
    \/ DemuxClose_Munmap
    \/ DemuxClose_FreePool
    \/ DemuxClose_Finish

\* the module as its owner drives it: DemuxClose once, after a DemuxOpen
\* that succeeded
Spec == Init /\ [][Next]_vars

\* the same with an owner that calls DemuxClose after a failed DemuxOpen
NextCloseAfterFailedOpen == Next \/ DemuxClose_AfterFailedOpen

SpecCloseAfterFailedOpen == Init /\ [][NextCloseAfterFailedOpen]_vars

\* the same with an owner that calls DemuxClose more than once
NextCloseTwice == Next \/ DemuxClose_Again

SpecCloseTwice == Init /\ [][NextCloseTwice]_vars

(* ------------------------------------------------------------------ *)
(* Properties: format negotiation                                      *)
(* ------------------------------------------------------------------ *)
Dsc(e) == vlc_from_v4l2_fourcc(e.pixelformat)
Recognized(e) == Dsc(e) # NULL
Emulated(e) == V4L2_FMT_FLAG_EMULATED \in e.flags
Matches(e, req) == Recognized(e) /\ v4l2_fmts[Dsc(e)].vlc = req

\* the enumeration loop is over and its locals are still in scope
LoopOver == pc = "check_selected"

NativeRanks(seq) ==
    { vlc_v4l2_fmt_rank(Dsc(seq[k])) :
        k \in { j \in 1..Len(seq) : Recognized(seq[j]) /\ ~Emulated(seq[j]) } }

CountOps(name) == Cardinality({ k \in 1..Len(trace) : trace[k][1] = name })

\* C1: with no requested codec and at least one catalog-recognized native
\* entry in the enumeration, the loop ends with the catalog entry of lowest
\* rank among the native entries selected, wherever the emulated entries
\* stand.
C1_NativeLowestRank ==
    (LoopOver /\ reqfourcc = "0" /\ NativeRanks(fmtdesc) # {})
        => /\ selected # NULL
           /\ vlc_v4l2_fmt_rank(selected) \in NativeRanks(fmtdesc)
           /\ \A r \in NativeRanks(fmtdesc) : vlc_v4l2_fmt_rank(selected) <= r

\* C2: when a codec is requested and some enumerated entry is recognized
\* with that output codec, the loop ends at the first such entry: that
\* entry is selected, whatever its rank and flag and whatever was selected
\* before, and VIDIOC_ENUM_FMT was issued for no later index.
C2_RequestedWins ==
    (LoopOver /\ reqfourcc # "0"
        /\ \E k \in 1..Len(fmtdesc) : Matches(fmtdesc[k], reqfourcc))
        => LET first == CHOOSE k \in 1..Len(fmtdesc) :
                            /\ Matches(fmtdesc[k], reqfourcc)
                            /\ \A j \in 1..(k - 1) : ~Matches(fmtdesc[j], reqfourcc)
           IN /\ selected = Dsc(fmtdesc[first])
              /\ codec_index = first - 1
              /\ CountOps("VIDIOC_ENUM_FMT") = first
              /\ \A k \in 1..Len(trace) :
                    trace[k][1] = "VIDIOC_ENUM_FMT" => trace[k][2] < first

\* the requested entry is emulated, of worse rank than a native entry
\* selected before it, and followed by further entries
C2_Witness ==
    /\ LoopOver
    /\ \E k \in 2..(Len(fmtdesc) - 1) :
        /\ Matches(fmtdesc[k], reqfourcc)
        /\ Emulated(fmtdesc[k])
        /\ selected = Dsc(fmtdesc[k])
        /\ \E j \in 1..(k - 1) :
            /\ Recognized(fmtdesc[j]) /\ ~Emulated(fmtdesc[j])
            /\ ~Matches(fmtdesc[j], reqfourcc)
            /\ vlc_v4l2_fmt_rank(Dsc(fmtdesc[j])) < vlc_v4l2_fmt_rank(selected)

\* The four steps of section 4.2 over the entries seq[k..]: best is the
\* current best candidate, nativeBest tells that a native entry was accepted
\* as the best candidate.
RECURSIVE Negotiate42(_, _, _, _, _)
Negotiate42(seq, k, req, best, nativeBest) ==
    IF k > Len(seq) THEN best
    ELSE LET e == seq[k]
             d == Dsc(e)
         IN IF d = NULL THEN Negotiate42(seq, k + 1, req, best, nativeBest)
            ELSE IF req # "0" /\ v4l2_fmts[d].vlc = req THEN d
            ELSE IF Emulated(e) /\ nativeBest
                 THEN Negotiate42(seq, k + 1, req, best, nativeBest)
            ELSE IF vlc_v4l2_fmt_rank(d) < vlc_v4l2_fmt_rank(best)
                 THEN Negotiate42(seq, k + 1, req, d, nativeBest \/ ~Emulated(e))
            ELSE Negotiate42(seq, k + 1, req, best, nativeBest)

\* The same four steps with the third one reading: an emulated entry is
\* skipped once a catalog-recognized native entry was enumerated, accepted
\* as the best candidate or not.
RECURSIVE NegotiateSeen(_, _, _, _, _)
NegotiateSeen(seq, k, req, best, nativeSeen) ==
    IF k > Len(seq) THEN best
    ELSE LET e == seq[k]
             d == Dsc(e)
         IN IF d = NULL THEN NegotiateSeen(seq, k + 1, req, best, nativeSeen)
            ELSE IF req # "0" /\ v4l2_fmts[d].vlc = req THEN d
            ELSE IF Emulated(e) /\ nativeSeen
                 THEN NegotiateSeen(seq, k + 1, req, best, nativeSeen)
            ELSE IF vlc_v4l2_fmt_rank(d) < vlc_v4l2_fmt_rank(best)
                 THEN NegotiateSeen(seq, k + 1, req, d, nativeSeen \/ ~Emulated(e))
            ELSE NegotiateSeen(seq, k + 1, req, best, nativeSeen \/ ~Emulated(e))

\* C3 as stated: for every enumeration and every requested codec, the loop
\* selects what the four steps of section 4.2 select, an emulated entry
\* being skipped once a native entry was accepted as the best candidate.
C3_AsSection42 ==
    LoopOver => selected = Negotiate42(fmtdesc, 1, reqfourcc, NULL, FALSE)

\* C3 amended: for every enumeration and every requested codec, the loop
\* selects what the four steps select when an emulated entry is skipped once
\* a catalog-recognized native entry was enumerated, whether or not that
\* entry became the best candidate; the best candidate is kept unless the
\* rank of the new one is strictly better.
C3_AsSeenNative ==
    LoopOver => selected = NegotiateSeen(fmtdesc, 1, reqfourcc, NULL, FALSE)

\* a native entry was enumerated but not accepted, and a later emulated
\* entry of better rank was skipped: the two readings part
C3_Witness ==
    /\ LoopOver
    /\ selected # NULL
    /\ selected # Negotiate42(fmtdesc, 1, reqfourcc, NULL, FALSE)
    /\ selected = NegotiateSeen(fmtdesc, 1, reqfourcc, NULL, FALSE)

(* ------------------------------------------------------------------ *)
(* Properties: setup and its failures                                  *)
(* ------------------------------------------------------------------ *)
FailingPcs == { "InitVideo_failed", "error", "open_failed" }

PoolOps ==
    { "VIDIOC_REQBUFS", "v4l2_mmap", "VIDIOC_QBUF", "VIDIOC_DQBUF",
      "VIDIOC_STREAMON", "VIDIOC_STREAMOFF", "v4l2_munmap" }

NoPoolOpIssued == \A k \in 1..Len(trace) : trace[k][1] \notin PoolOps

\* the enumeration is over, its locals are in scope and no enumerated entry
\* is in the catalog
NothingRecognized ==
    /\ codec_index >= 0
    /\ pc # "enum_fmt"
    /\ \A k \in 1..Len(fmtdesc) : ~Recognized(fmtdesc[k])

\* C4: when the enumeration holds no catalog-recognized entry (the empty
\* enumeration included), nothing is selected, InitVideo fails with the
\* negotiation diagnostic and DemuxOpen returns VLC_EGENERIC; no stream was
\* added and no buffer was requested, mapped, queued or streamed.
C4_NoRecognizedFails ==
    NothingRecognized
        => /\ selected = NULL
           /\ pc \in { "check_selected" } \cup FailingPcs
           /\ pc \in FailingPcs => errmsg = "cannot negotiate supported video format"
           /\ pc = "open_failed" => ret = VLC_EGENERIC
           /\ es_out = << >> /\ sys.p_es = NULL
           /\ mapped = {} /\ queued = {} /\ ~streaming
           /\ NoPoolOpIssued

\* DemuxOpen returned after a device enumerated entries none of which is in
\* the catalog
C4_Witness ==
    /\ NothingRecognized
    /\ Len(fmtdesc) > 0
    /\ pc = "open_failed"
    /\ ret = VLC_EGENERIC

\* VIDIOC_QUERYCAP succeeded in the DemuxOpen in progress
Queried ==
    /\ \E k \in 1..Len(trace) : trace[k][1] = "VIDIOC_QUERYCAP"
    /\ errmsg # "cannot get device capabilities"

SetupFailed == pc \in FailingPcs /\ (pc = "open_failed" => ret = VLC_EGENERIC)

NoEnumeration == codec_index = -1 /\ CountOps("VIDIOC_ENUM_FMT") = 0

\* C5: for every combination of the capture, streaming and read/write
\* flags: setup fails when capture is absent; otherwise the method is MMAP
\* when streaming is present (read/write present or not), READ when only
\* read/write is present, and setup fails with "no supported I/O method"
\* when both are absent; a setup that fails so enumerates no format.
C5_IoStrategy ==
    Queried
        => IF V4L2_CAP_VIDEO_CAPTURE \notin caps
           THEN SetupFailed /\ errmsg = "not a video capture device" /\ NoEnumeration
           ELSE IF V4L2_CAP_STREAMING \in caps
           THEN /\ sys.io = IO_METHOD_MMAP
                /\ errmsg \notin { "not a video capture device", "no supported I/O method" }
           ELSE IF V4L2_CAP_READWRITE \in caps
           THEN /\ sys.io = IO_METHOD_READ
                /\ errmsg \notin { "not a video capture device", "no supported I/O method" }
           ELSE SetupFailed /\ errmsg = "no supported I/O method" /\ NoEnumeration

\* a device with the three flags reached the end of a successful setup
C5_Witness ==
    /\ Queried
    /\ pc = "opened"
    /\ caps = { V4L2_CAP_VIDEO_CAPTURE, V4L2_CAP_STREAMING, V4L2_CAP_READWRITE }
    /\ sys.io = IO_METHOD_MMAP
    /\ streaming

\* C6: when setup fails at any step after the device was opened, all that
\* was allocated is rolled back before DemuxOpen returns its error: no
\* buffer is mapped, none is queued, streaming is off, no added stream
\* remains and the device handle is closed.
C6_FullRollback ==
    (pc = "open_failed" /\ fd # "unopened")
        => /\ ret = VLC_EGENERIC
           /\ fd = "closed"
           /\ mapped = {}
           /\ queued = {}
           /\ ~streaming
           /\ es_out = << >>

(* ------------------------------------------------------------------ *)
(* Properties: teardown                                                *)
(* ------------------------------------------------------------------ *)
OpenFailed == ret \in { VLC_EGENERIC, VLC_ENOMEM }

\* C7: DemuxClose after a DemuxOpen that failed at any step reads no state
\* that is not allocated any more and releases what DemuxOpen left behind
\* once, nothing twice.
C7_CloseAfterFailedOpen ==
    (OpenFailed /\ closeCalls >= 1)
        => /\ ~uaf
           /\ \A o \in ReleaseOps : rel[o] <= 1
           /\ pc = "closed" => mapped = {}

PoolReleaseOps ==
    { Op("VIDIOC_STREAMOFF", 0), Op("free_p_buffers", 0) }
    \cup { Op("v4l2_munmap", k) : k \in 0..(MaxBuffers - 1) }

\* C8: the teardown of the pool is idempotent: run twice on a session, or
\* run after only some buffers were queued, it issues no stream-off, unmap
\* or free twice on one resource and leaves no buffer mapped.
C8_TeardownIdempotent ==
    /\ \A o \in PoolReleaseOps : rel[o] <= 1
    /\ (pc = "closed" /\ closeCalls >= 1) => mapped = {}

IsPrefix(s, t) == Len(s) <= Len(t) /\ \A k \in 1..Len(s) : s[k] = t[k]

\* the requests of a DemuxClose over a pool of n buffers, in order
MmapCloseTrace(n) ==
    [k \in 1..n |-> Op("VIDIOC_DQBUF", 0)]
    \o << Op("VIDIOC_STREAMOFF", 0) >>
    \o [k \in 1..n |-> Op("v4l2_munmap", k - 1)]
    \o << Op("free_p_buffers", 0), Op("ControlsDeinit", 0), Op("v4l2_close", 0),
          Op("free_sys", 0) >>

InClose == pc \in { "close_dqbuf", "close_free", "close_munmap", "close_fd", "closed" }

C10_UnmappedAtStreamOff ==
    (InClose /\ sys.io = IO_METHOD_MMAP /\ CountOps("VIDIOC_STREAMOFF") > 0
        /\ CountOps("v4l2_munmap") = 0)
        => mapped = {}

(* ------------------------------------------------------------------ *)
(* Properties: the capture cycle                                       *)
(* ------------------------------------------------------------------ *)
\* Demux returned and what it left behind is still there
CycleEnded == pc = "opened" /\ outcome # "none"

\* poll reported an error on the device or a descriptor that is not open
DeviceFailed == revents \cap { POLLERR, POLLNVAL } # {}

FrameOps == { "ES_OUT_SET_PCR", "es_out_Send" }

NoFrameOp == \A k \in 1..Len(trace) : trace[k][1] \notin FrameOps

OnlyPolled == \A k \in 1..Len(trace) : trace[k][1] = "poll"

\* C11: a cycle in which poll does not fail but reports an error or an
\* invalid descriptor returns the fatal result, so that the owner starts no
\* further cycle.
C11_DeviceFatalEnds ==
    (CycleEnded /\ DeviceFailed) => ret = DEMUX_FATAL

\* C12: a cycle returns the fatal result exactly when poll failed with an
\* error other than EINTR; after an interrupted poll the cycle is still in
\* progress and nothing was reported; a failed read (EAGAIN or not), a
\* failed block allocation and a failed GrabVideo end the cycle with the
\* continue result, no block, no ES_OUT_SET_PCR and no es_out_Send.
C12_FatalIffPollFails ==
    /\ CycleEnded
         => /\ ret \in { DEMUX_FATAL, DEMUX_CONTINUE }
            /\ ret = DEMUX_FATAL <=> outcome \in PollErrnos \ { "EINTR" }
    /\ outcome = "EINTR"
         => pc = "poll" /\ eintr >= 1 /\ ret # DEMUX_FATAL /\ errmsg # "poll error"
    /\ (CycleEnded /\ outcome \in ReadErrnos \cup { "block_Alloc", "GrabVideo" })
         => ret = DEMUX_CONTINUE /\ NoFrameOp /\ block = NoBlock

\* a poll was interrupted, the next one of the same cycle failed for good
C12_Witness ==
    /\ CycleEnded
    /\ eintr >= 1
    /\ outcome = "ENOMEM"
    /\ ret = DEMUX_FATAL
    /\ CountOps("poll") = eintr + 1

\* C13: the step in which poll returns without failing and without event
\* ends the cycle with the continue result; it logs nothing, and the cycle
\* issued nothing but poll: no read, no retract, no ES_OUT_SET_PCR, no
\* es_out_Send, no block.
C13_TimeoutContinues ==
    [][(pc = "poll" /\ outcome' \notin PollErrnos /\ revents' = {})
         => /\ pc' = "opened"
            /\ ret' = DEMUX_CONTINUE
            /\ errmsg' = errmsg
            /\ block' = NoBlock
            /\ UNCHANGED << es_out, mapped, queued, streaming, sys >>
            /\ \A k \in 1..Len(trace') : trace'[k][1] = "poll"]_vars

\* a cycle ended by a timeout, after a cycle that logged a read error
C13_Witness ==
    /\ CycleEnded
    /\ outcome = "timeout"
    /\ revents = {}
    /\ ret = DEMUX_CONTINUE
    /\ OnlyPolled
    /\ errmsg = "cannot read frame"

\* the session is open and DemuxClose has not started
Capturing == pc \in { "opened", "poll", "grab", "send" }

\* the buffer indexes of the pool
Pool == 0..(sys.i_nbuffers - 1)

\* the arguments of the requests of that name, in the order issued
RECURSIVE ArgsOf(_, _)
ArgsOf(name, t) ==
    IF t = << >> THEN << >>
    ELSE IF Head(t)[1] = name THEN << Head(t)[2] >> \o ArgsOf(name, Tail(t))
    ELSE ArgsOf(name, Tail(t))

FormatSet == fmt.field # "none"

NoFlagFields ==
    { V4L2_FIELD_NONE, V4L2_FIELD_TOP, V4L2_FIELD_BOTTOM, V4L2_FIELD_SEQ_TB,
      V4L2_FIELD_SEQ_BT, V4L2_FIELD_ALTERNATE }

TopFirstFields == { V4L2_FIELD_INTERLACED, V4L2_FIELD_INTERLACED_TB }

BottomFirstFields == { V4L2_FIELD_INTERLACED_BT }

\* C15: the field order the device returned fixes the flag of the session:
\* none for progressive, top only, bottom only, sequential top-bottom,
\* sequential bottom-top and alternate; top field first for interleaved and
\* interleaved top-bottom; bottom field first for interleaved bottom-top;
\* none for any other value, which does not make InitVideo fail either: the
\* stream is added and InitVideo goes on.
C15_InterlaceTable ==
    FormatSet
        => /\ fmt.field \in NoFlagFields => sys.i_block_flags = {}
           /\ fmt.field \in TopFirstFields
                => sys.i_block_flags = { BLOCK_FLAG_TOP_FIELD_FIRST }
           /\ fmt.field \in BottomFirstFields
                => sys.i_block_flags = { BLOCK_FLAG_BOTTOM_FIELD_FIRST }
           /\ fmt.field \notin NoFlagFields \cup TopFirstFields \cup BottomFirstFields
                => sys.i_block_flags = {}
           /\ pc \in { "InitMmap", "InitVideo_ok" }
           /\ Len(es_out) = 1
           /\ sys.p_es = 1

\* a device that returned a field order the switch does not name
C15_Witness ==
    /\ FormatSet
    /\ fmt.field = V4L2_FIELD_ANY
    /\ sys.i_block_flags = {}
    /\ pc = "InitVideo_ok"

(* ------------------------------------------------------------------ *)
(* Properties: DemuxControl                                            *)
(* ------------------------------------------------------------------ *)
CapabilityQueries == { DEMUX_CAN_PAUSE, DEMUX_CAN_SEEK, DEMUX_CAN_CONTROL_PACE }

\* a query was answered since the last call of Demux
Answered == ctl.query # "none"

ControlAnswersRight ==
    Answered
        => /\ ctl.query \in CapabilityQueries
                => ctl.ret = VLC_SUCCESS /\ ctl.written /\ ctl.out = 0
           /\ ctl.query = DEMUX_GET_PTS_DELAY
                => /\ ctl.ret = VLC_SUCCESS /\ ctl.written
                   /\ ctl.in \in LiveCaching
                   /\ ctl.out = ctl.in * 1000
           /\ ctl.query = DEMUX_GET_TIME
                => /\ ctl.ret = VLC_SUCCESS /\ ctl.written
                   /\ ctl.in \in Mdate
                   /\ ctl.out = ctl.in
           /\ ctl.query \notin CapabilityQueries \cup { DEMUX_GET_PTS_DELAY, DEMUX_GET_TIME }
                => ctl.ret = VLC_EGENERIC /\ ~ctl.written

\* C16: the three capability queries are answered false with VLC_SUCCESS,
\* whatever the state of the session; DEMUX_GET_PTS_DELAY is answered 1000
\* times the "live-caching" setting and DEMUX_GET_TIME the clock, both with
\* VLC_SUCCESS; every other query returns VLC_EGENERIC and writes nothing;
\* the step that answers a query leaves the session, the device and what
\* Demux and DemuxOpen returned as they were.
C16_ControlAnswers ==
    /\ []ControlAnswersRight
    /\ [][(ctl' # ctl /\ ctl'.query # "none")
            => UNCHANGED << pc, ret, errmsg, p_sys, sys, fd, es_out, mapped, queued,
                            streaming >>]_vars

\* "can pause" asked of a session whose last cycle returned the fatal result
C16_Witness ==
    /\ pc = "opened"
    /\ ret = DEMUX_FATAL
    /\ ctl.query = DEMUX_CAN_PAUSE
    /\ ctl.ret = VLC_SUCCESS
    /\ ctl.written
    /\ ctl.out = 0

RECURSIVE GCD(_, _)
GCD(a, b) == IF b = 0 THEN a ELSE GCD(b, a % b)

\* a : b in lowest terms
Reduce(a, b) == << a \div GCD(a, b), b \div GCD(a, b) >>

\* a * d = b * c, for a, c >= 0 and b, d > 0, without forming the products
SameRatio(a, b, c, d) == Reduce(a, b) = Reduce(c, d)

\* the setting holds a ':'
HasDelim == str # NullStr /\ strchr(str[1], ":") # 0

\* the display ratio W:H the setting stands for, 4:3 without a ':'
DisplayW == IF HasDelim THEN atoi(str[1]) ELSE 4

DisplayH ==
    IF HasDelim
    THEN atoi(SubSeq(str[1], strchr(str[1], ":") + 1, Len(str[1])))
    ELSE 3

\* no product formed for the sample aspect ratio leaves the range of int
SarFitsInt ==
    /\ FitsInt(DisplayW, VOUT_ASPECT_FACTOR)
    /\ FitsInt((DisplayW * VOUT_ASPECT_FACTOR) \div DisplayH, es_out[1].i_height)
    /\ FitsInt(VOUT_ASPECT_FACTOR, es_out[1].i_width)

\* C17 as stated: for the setting "W:H" (4:3 when it is unset or holds no
\* ':') and the published width w and height h, the published i_sar_num and
\* i_sar_den satisfy num * H * w = den * W * h, which is 32:27 for "16:9"
\* and 720x480; no product leaves the range of a 32-bit int.
C17_SarExact ==
    FormatSet
        => LET e == es_out[1]
           IN /\ SameRatio(e.i_sar_num, e.i_sar_den,
                           DisplayW * e.i_height, DisplayH * e.i_width)
              /\ (DisplayW = 16 /\ DisplayH = 9 /\ e.i_width = 720 /\ e.i_height = 480)
                    => Reduce(e.i_sar_num, e.i_sar_den) = << 32, 27 >>
              /\ SarFitsInt

\* C17 amended: i_sar_num is the integer quotient of W * VOUT_ASPECT_FACTOR
\* by H, times h, and i_sar_den is VOUT_ASPECT_FACTOR * w; num * H * w =
\* den * W * h holds when H divides W * VOUT_ASPECT_FACTOR, as it does for
\* "16:9" (32:27 at 720x480) and for the 4:3 used when the setting is unset
\* or holds no ':'; no product leaves the range of a 32-bit int.
C17_SarTruncated ==
    FormatSet
        => LET e == es_out[1]
               ar == (DisplayW * VOUT_ASPECT_FACTOR) \div DisplayH
           IN /\ e.i_sar_num = ar * e.i_height
              /\ e.i_sar_den = VOUT_ASPECT_FACTOR * e.i_width
              /\ (DisplayW * VOUT_ASPECT_FACTOR) % DisplayH = 0
                    => SameRatio(e.i_sar_num, e.i_sar_den,
                                 DisplayW * e.i_height, DisplayH * e.i_width)
              /\ ~HasDelim => SameRatio(e.i_sar_num, e.i_sar_den,
                                        4 * e.i_height, 3 * e.i_width)
              /\ (DisplayW = 16 /\ DisplayH = 9 /\ e.i_width = 720 /\ e.i_height = 480)
                    => Reduce(e.i_sar_num, e.i_sar_den) = << 32, 27 >>
              /\ SarFitsInt

\* a setting whose H does not divide W * VOUT_ASPECT_FACTOR: the quotient
\* was truncated
C17_Witness ==
    /\ FormatSet
    /\ HasDelim
    /\ (DisplayW * VOUT_ASPECT_FACTOR) % DisplayH # 0
    /\ es_out[1].i_sar_num
         = ((DisplayW * VOUT_ASPECT_FACTOR) \div DisplayH) * es_out[1].i_height
    /\ ~SameRatio(es_out[1].i_sar_num, es_out[1].i_sar_den,
                  DisplayW * es_out[1].i_height, DisplayH * es_out[1].i_width)

(* ------------------------------------------------------------------ *)
(* Properties: delivery                                                *)
(* ------------------------------------------------------------------ *)
\* the cycle that just ended got a block
FrameProduced == CycleEnded /\ outcome = "block"

FrameDelivered ==
    FrameProduced
        => /\ ret = DEMUX_CONTINUE
           /\ block.i_pts \in Mdate
           /\ block.i_dts = block.i_pts
           /\ sys.i_block_flags \subseteq block.i_flags
           /\ CountOps("ES_OUT_SET_PCR") = 1
           /\ CountOps("es_out_Send") = 1
           /\ SubSeq(trace, Len(trace) - 1, Len(trace))
                = << Op("ES_OUT_SET_PCR", block.i_pts), Op("es_out_Send", sys.p_es) >>

\* C18: a cycle that got a block stamps it with one clock reading as i_pts
\* and i_dts, adds the flag of the session to the flags the block had,
\* issues ES_OUT_SET_PCR with that reading and then es_out_Send for the
\* stream of the session, once each, and returns the continue result; no
\* cycle issues es_out_Send more than once, and none without a block.
C18_FrameStamped ==
    /\ [](FrameDelivered /\ CountOps("es_out_Send") <= 1
            /\ (CycleEnded /\ outcome # "block" => NoFrameOp))
    /\ [][pc = "send"
            => /\ block'.i_flags = block.i_flags \cup sys.i_block_flags
               /\ block'.i_buffer = block.i_buffer
               /\ block'.i_pts = block'.i_dts
               /\ trace' = trace \o << Op("ES_OUT_SET_PCR", block'.i_pts),
                                       Op("es_out_Send", sys.p_es) >>]_vars

\* a block that came with a flag set, sent by a session that adds its own
C18_Witness ==
    /\ FrameProduced
    /\ block.i_flags = { BLOCK_FLAG_DISCONTINUITY, BLOCK_FLAG_TOP_FIELD_FIRST }
    /\ block.i_pts = block.i_dts
    /\ trace[Len(trace) - 1] = Op("ES_OUT_SET_PCR", block.i_pts)
    /\ trace[Len(trace)] = Op("es_out_Send", sys.p_es)

(* ------------------------------------------------------------------ *)
(* Properties: the order of setup                                      *)
(* ------------------------------------------------------------------ *)
\* trace is the one of DemuxOpen
InSetup == Issued("VIDIOC_QUERYCAP")

\* the buffer-pool and streaming requests among the requests issued
RECURSIVE PoolTrace(_)
PoolTrace(t) ==
    IF t = << >> THEN << >>
    ELSE IF Head(t)[1] \in PoolOps THEN << Head(t) >> \o PoolTrace(Tail(t))
    ELSE PoolTrace(Tail(t))

\* the pool requests of a setup that maps and queues n buffers
MmapSetupTrace(n) ==
    << Op("VIDIOC_REQBUFS", 0) >>
        \o [k \in 1..n |-> Op("v4l2_mmap", k - 1)]
        \o [k \in 1..n |-> Op("VIDIOC_QBUF", k - 1)]
        \o << Op("VIDIOC_STREAMON", 0) >>

\* position of the first request of that name, 0 when there is none
FirstOp(name) ==
    IF Issued(name)
    THEN CHOOSE k \in 1..Len(trace) :
            trace[k][1] = name /\ \A j \in 1..(k - 1) : trace[j][1] # name
    ELSE 0

\* C19: in the setup of an MMAP session the pool requests are, in this
\* order, the request and mapping of the n buffers, VIDIOC_QBUF for 0, 1,
\* ..., n-1, once each, and VIDIOC_STREAMON; all of them come after
\* es_out_Add; the driver streams only when all n buffers are queued and
\* InitVideo succeeds only with all of it done; when a VIDIOC_QBUF fails,
\* VIDIOC_STREAMON is not issued, the driver does not stream and setup
\* fails.
C19_QueueThenStream ==
    (InSetup /\ sys.io = IO_METHOD_MMAP)
        => /\ IsPrefix(PoolTrace(trace), MmapSetupTrace(sys.i_nbuffers))
           /\ PoolTrace(trace) # << >>
                => /\ Issued("es_out_Add")
                   /\ \A k \in 1..Len(trace) :
                        trace[k][1] \in PoolOps => FirstOp("es_out_Add") < k
           /\ (streaming \/ Issued("VIDIOC_STREAMON"))
                => /\ sys.i_nbuffers >= 1
                   /\ mapped = Pool
                   /\ ArgsOf("VIDIOC_QBUF", trace)
                        = [k \in 1..sys.i_nbuffers |-> k - 1]
           /\ streaming => queued = Pool
           /\ pc \in { "InitVideo_ok", "opened" }
                => streaming /\ PoolTrace(trace) = MmapSetupTrace(sys.i_nbuffers)
           /\ errmsg = "cannot queue buffer"
                => /\ ~Issued("VIDIOC_STREAMON")
                   /\ ~streaming
                   /\ pc \in FailingPcs
                   /\ pc = "open_failed" => ret = VLC_EGENERIC

\* InitVideo succeeded with a pool of more than one buffer
C19_Witness ==
    /\ InSetup
    /\ pc = "InitVideo_ok"
    /\ sys.io = IO_METHOD_MMAP
    /\ sys.i_nbuffers >= 2
    /\ streaming
    /\ PoolTrace(trace) = MmapSetupTrace(sys.i_nbuffers)
    /\ FirstOp("es_out_Add") < FirstOp("VIDIOC_REQBUFS")

(* ------------------------------------------------------------------ *)
(* Properties: the READ method                                         *)
(* ------------------------------------------------------------------ *)
\* C20: a session with the READ method issues no buffer-pool or streaming
\* request in DemuxOpen, in any call of Demux or in DemuxClose, and has no
\* pool: nothing is mapped, queued or streaming and p_buffers stays NULL;
\* InitVideo records the sizeimage the device returned as blocksize, no
\* later step changes it, and every v4l2_read asks for blocksize bytes, at
\* most once in a cycle.
C20_ReadHasNoPool ==
    /\ [](sys.io = IO_METHOD_READ
            => /\ NoPoolOpIssued
               /\ mapped = {} /\ queued = {} /\ ~streaming
               /\ ~sys.p_buffers /\ sys.i_nbuffers = 0
               /\ FormatSet => sys.blocksize = fmt.sizeimage
               /\ (Capturing \/ InClose) => sys.blocksize \in SizeImages
               /\ CountOps("v4l2_read") <= 1
               /\ \A k \in 1..Len(trace) :
                    trace[k][1] = "v4l2_read" => trace[k][2] = sys.blocksize)
    /\ [][(sys.io = IO_METHOD_READ /\ pc # "SetupFormat")
            => sys'.blocksize = sys.blocksize /\ sys'.io = sys.io]_vars

\* a READ session whose second cycle read a block of blocksize bytes
C20_Witness ==
    /\ sys.io = IO_METHOD_READ
    /\ FrameProduced
    /\ cycles = 2
    /\ ArgsOf("v4l2_read", trace) = << sys.blocksize >>
    /\ sys.blocksize = 8192
    /\ block.i_buffer = sys.blocksize
    /\ NoPoolOpIssued

\* C21: the stream is published with the width SetupFormat returned and
\* with the height it returned, twice that height when the field order is
\* V4L2_FIELD_ALTERNATE and for no other field order, whatever size was
\* asked for.
C21_PublishedSize ==
    FormatSet
        => LET e == es_out[1]
           IN /\ e.i_width = sizes.width
              /\ fmt.width = sizes.width
              /\ e.i_height = fmt.height
              /\ fmt.field = V4L2_FIELD_ALTERNATE => e.i_height = 2 * sizes.height
              /\ fmt.field # V4L2_FIELD_ALTERNATE => e.i_height = sizes.height

\* the device returned another size than was asked for, with alternate
\* fields
C21_Witness ==
    /\ FormatSet
    /\ fmt.field = V4L2_FIELD_ALTERNATE
    /\ sizes.req_width # sizes.width
    /\ sizes.req_height # sizes.height
    /\ sizes.req_height # 2 * sizes.height
    /\ es_out[1].i_width = sizes.width
    /\ es_out[1].i_height = 2 * sizes.height

(* ------------------------------------------------------------------ *)
(* Properties: the best candidate of the negotiation                   *)
(* ------------------------------------------------------------------ *)
\* the enumeration is in progress or just over
InNegotiation == pc \in { "enum_fmt", "check_selected" } /\ codec_index >= 0

\* how many entries the loop body has been through
Processed ==
    IF pc = "enum_fmt" \/ codec_index >= Len(fmtdesc)
    THEN codec_index
    ELSE codec_index + 1

\* none of the first n entries has the requested codec
NoMatchIn(n) == \A j \in 1..n : ~Matches(fmtdesc[j], reqfourcc)

CandidateEnumerated ==
    (InNegotiation /\ NoMatchIn(Processed))
        => /\ Processed <= Len(fmtdesc)
           /\ selected \in DscPtr
           /\ selected # NULL
                => \E j \in 1..Processed :
                      Recognized(fmtdesc[j]) /\ selected = Dsc(fmtdesc[j])
           /\ LoopOver
                => \A r \in NativeRanks(fmtdesc) : vlc_v4l2_fmt_rank(selected) <= r

\* C22: as long as no enumerated entry has the requested codec, a pass of
\* the loop body never raises the rank of the selected descriptor (the rank
\* of NULL being the highest), the selected descriptor is NULL or the
\* catalog entry of an entry the device enumerated, and when the loop is
\* over its rank is at most the rank of every catalog-recognized native
\* entry of the enumeration.
C22_RankNeverIncreases ==
    /\ []CandidateEnumerated
    /\ [][(pc = "enum_fmt" /\ codec_index < Len(fmtdesc)
             /\ NoMatchIn(codec_index + 1))
            => vlc_v4l2_fmt_rank(selected') <= vlc_v4l2_fmt_rank(selected)]_vars

\* a codec was requested that the device does not offer; the loop replaced
\* a first candidate by a later native entry of better rank
C22_Witness ==
    /\ LoopOver
    /\ reqfourcc # "0"
    /\ NoMatchIn(Len(fmtdesc))
    /\ \E j \in 1..Len(fmtdesc) : \E k \in (j + 1)..Len(fmtdesc) :
         /\ Recognized(fmtdesc[j]) /\ Recognized(fmtdesc[k])
         /\ ~Emulated(fmtdesc[k])
         /\ vlc_v4l2_fmt_rank(Dsc(fmtdesc[k])) < vlc_v4l2_fmt_rank(Dsc(fmtdesc[j]))
         /\ selected = Dsc(fmtdesc[k])

(* ------------------------------------------------------------------ *)
(* Properties: the device handle is closed once                        *)
(* ------------------------------------------------------------------ *)
\* how many times v4l2_close was called since Init
Closes == rel[Op("v4l2_close", 0)]

\* C23: over DemuxOpen, the capture cycles and the one DemuxClose of a
\* session, v4l2_close is called at most once: never while the device was
\* not opened, once by the time DemuxOpen has failed after the device was
\* opened, never during a capture cycle nor before the end of DemuxClose,
\* and once when DemuxClose is over, after ControlsDeinit.
C23_HandleClosedOnce ==
    /\ Closes <= 1
    /\ fd = "unopened" => Closes = 0
    /\ fd = "open" => Closes = 0
    /\ fd = "closed" => Closes = 1
    /\ pc = "open_failed" => fd \in { "unopened", "closed" }
    /\ (Capturing \/ pc \in { "close_dqbuf", "close_free", "close_munmap", "close_fd" })
          => fd = "open"
    /\ pc = "closed"
          => /\ fd = "closed"
             /\ CountOps("v4l2_close") = 1
             /\ CountOps("ControlsDeinit") = 1
             /\ FirstOp("ControlsDeinit") < FirstOp("v4l2_close")

\* a session that captured and was closed
C23_Witness ==
    /\ pc = "closed"
    /\ cycles >= 1
    /\ Closes = 1
    /\ rel[Op("ControlsDeinit", 0)] = 1
    /\ FirstOp("ControlsDeinit") + 1 = FirstOp("v4l2_close")

====
